---- MODULE Spec2Model ----
(***************************************************************************)
(* Bubbles: representation-based dispatch of operations (bubbles/op.py,    *)
(* bubbles/session.py), the processing graph (bubbles/graph.py,            *)
(* bubbles/execution/graph.py) and the execution engine                    *)
(* (bubbles/engine.py).                                                    *)
(*                                                                         *)
(* Strings are modelled as sequences of tokens, so that "sql" is <<"sql">> *)
(* and "sql[]" is <<"sql", "[]">>: the "[]" suffix test of to_type and the *)
(* suffixing of get_representations are then real computations.            *)
(* Python names that a module uses without importing them (RetryError in   *)
(* op.py) are taken to resolve to the class of that name in errors.py.     *)
(***************************************************************************)
EXTENDS Integers, Sequences, FiniteSets

\* ------------------------------------------------------------------------
\* Bounds of the model
\* ------------------------------------------------------------------------
\* number of Operation.register calls on the operation
MaxSigs == 3
\* number of nodes added to a graph
MaxNodes == 3
\* number of connections of a graph
MaxConns == 3
\* number of Pipeline.run calls on the pipeline
MaxRuns == 3
\* number of data objects in a list operand
MaxMembers == 3
\* number of operations an OperationContext holds under one name
MaxOps == 3
\* largest retry_count an OperationContext is made with
MaxRetryCount == 2

None == <<>>

\* ------------------------------------------------------------------------
\* Python sequences
\* ------------------------------------------------------------------------
RECURSIVE Flatten(_)
Flatten(ss) == IF ss = <<>> THEN <<>> ELSE Head(ss) \o Flatten(Tail(ss))

RECURSIVE Filter(_, _)
Filter(s, keep) ==
    IF s = <<>> THEN <<>>
    ELSE (IF Head(s) \in keep THEN <<Head(s)>> ELSE <<>>) \o Filter(Tail(s), keep)

Reverse(s) == [i \in 1..Len(s) |-> s[Len(s) + 1 - i]]

Range(s) == {s[i] : i \in 1..Len(s)}

Min(a, b) == IF a < b THEN a ELSE b

RECURSIVE product_last_first(_)
product_last_first(lists) ==
    IF lists = <<>> THEN << <<>> >>
    ELSE LET rest == product_last_first(Tail(lists))
             first == Reverse(Head(lists))
         IN  Flatten([i \in 1..Len(first) |->
                        [j \in 1..Len(rest) |-> <<first[i]>> \o rest[j]]])

\* itertools.product(*lists): the rightmost list varies fastest
RECURSIVE product(_)
product(lists) ==
    IF lists = <<>> THEN << <<>> >>
    ELSE LET rest == product(Tail(lists))
             first == Head(lists)
         IN  Flatten([i \in 1..Len(first) |->
                        [j \in 1..Len(rest) |-> <<first[i]>> \o rest[j]]])

\* ------------------------------------------------------------------------
\* op.py: types and signatures
\* ------------------------------------------------------------------------
Str(token) == <<token>>

ANY_SPECIFIER == Str("*")

Type(specifier, islist) == [specifier |-> specifier, islist |-> islist]

Any == Type(ANY_SPECIFIER, FALSE)

to_type(obj) ==
    IF Len(obj) >= 1 /\ obj[Len(obj)] = "[]"
    THEN Type(SubSeq(obj, 1, Len(obj) - 1), TRUE)
    ELSE Type(obj, FALSE)

\* Signature(*types, output=None)
Signature(types) ==
    [operands |-> [i \in 1..Len(types) |-> to_type(types[i])], output |-> None]

match_any_list(sig, operand_types) ==
    /\ Len(operand_types) = Len(sig.operands)
    /\ \A i \in 1..Len(sig.operands) :
          LET mine == sig.operands[i]
              their == to_type(operand_types[i])
          IN  ~ (mine.specifier # ANY_SPECIFIER
                   /\ mine.specifier # their.specifier)

\* Signature.match
match(sig, operand_types) ==
    /\ Len(operand_types) = Len(sig.operands)
    /\ \A i \in 1..Len(sig.operands) :
          LET mine == sig.operands[i]
              their == to_type(operand_types[i])
          IN  ~ (\/ mine.islist # their.islist
                 \/ (mine.specifier # ANY_SPECIFIER
                       /\ mine.specifier # their.specifier))

\* Signature.__lt__
Signature_lt(self, other) ==
    ~ \E i \in 1..Min(Len(self.operands), Len(other.operands)) :
          self.operands[i] # Any /\ other.operands[i] = Any

\* ------------------------------------------------------------------------
\* sorted(): CPython's list sort on a short list (fewer than 64 elements):
\* the leading run is found (and reversed when strictly descending), the
\* remaining elements are placed by binary insertion.  Only "<" of the
\* elements is used.
\* ------------------------------------------------------------------------
RECURSIVE count_run(_, _, _)
count_run(s, n, descending) ==
    IF n >= Len(s) THEN n
    ELSE IF Signature_lt(s[n + 1], s[n]) = descending
         THEN count_run(s, n + 1, descending)
         ELSE n

RECURSIVE bisect(_, _, _, _)
bisect(s, pivot, l, r) ==
    IF l >= r THEN l
    ELSE LET p == l + ((r - l) \div 2)
         IN  IF Signature_lt(pivot, s[p + 1])
             THEN bisect(s, pivot, l, p)
             ELSE bisect(s, pivot, p + 1, r)

RECURSIVE binarysort(_, _)
binarysort(done, rest) ==
    IF rest = <<>> THEN done
    ELSE LET pivot == Head(rest)
             l == bisect(done, pivot, 0, Len(done))
         IN  binarysort(SubSeq(done, 1, l) \o <<pivot>>
                          \o SubSeq(done, l + 1, Len(done)),
                        Tail(rest))

sorted(s) ==
    IF Len(s) < 2 THEN s
    ELSE LET descending == Signature_lt(s[2], s[1])
             n == count_run(s, 2, descending)
             run == IF descending THEN Reverse(SubSeq(s, 1, n))
                    ELSE SubSeq(s, 1, n)
         IN  binarysort(run, SubSeq(s, n + 1, Len(s)))

\* ------------------------------------------------------------------------
\* op.py: Operation
\* ------------------------------------------------------------------------
\* keys of the registry dictionary, in insertion order
Keys(reg) == [i \in 1..Len(reg) |-> reg[i].sig]

\* Operation.sorted_signatures
sorted_signatures(reg) == sorted(Keys(reg))

\* the list comprehension of Operation.resolution_order
Matching(signatures, itertype) ==
    Filter(signatures, {sig \in Range(signatures) : match(sig, itertype)})

\* Operation.resolution_order; <<>> stands for the OperationError raised
\* when nothing matches
resolution_order(reg, types) ==
    LET signatures == sorted_signatures(reg)
        combos == product(types)
    IN  Flatten([i \in 1..Len(combos) |-> Matching(signatures, combos[i])])

\* hasattr(obj, name): a data object is a record of the methods it has, a
\* list of objects is the record of its items
hasattr(obj, name) == name \in DOMAIN obj

\* the loop of common_representations over objects[1:]; the comprehension
\* calls obj.reps() once for every member of common, so never when common
\* is empty
RECURSIVE common_loop(_, _)
common_loop(common, objects) ==
    IF objects = <<>> THEN [raised |-> "", value |-> common]
    ELSE IF common = <<>> THEN common_loop(common, Tail(objects))
    ELSE IF ~ hasattr(Head(objects), "reps")
         THEN [raised |-> "AttributeError", value |-> <<>>]
         ELSE common_loop(Filter(common, Range(Head(objects).reps)),
                          Tail(objects))

\* common_representations: the value returned, or the error raised
common_representations(objects) ==
    IF objects = <<>> THEN [raised |-> "IndexError", value |-> <<>>]
    ELSE IF ~ hasattr(objects[1], "reps")
         THEN [raised |-> "AttributeError", value |-> <<>>]
         ELSE common_loop(objects[1].reps, Tail(objects))

\* the list get_representations appends for one operand (<<>> when the
\* operand makes it raise)
operand_representations(obj) ==
    IF hasattr(obj, "reps") THEN obj.reps
    ELSE IF hasattr(obj, "representations") THEN obj.representations
    ELSE LET common == common_representations(obj.items).value
         IN  [j \in 1..Len(common) |-> common[j] \o <<"[]">>]

\* get_representations: the list of lists it returns
get_representations(operands) ==
    [i \in 1..Len(operands) |-> operand_representations(operands[i])]

\* get_representations: the error it raises, "" when it returns
get_representations_raises(operands) ==
    IF \A i \in 1..Len(operands) :
          \/ hasattr(operands[i], "reps")
          \/ hasattr(operands[i], "representations")
          \/ common_representations(operands[i].items).raised = ""
    THEN ""
    ELSE LET i == CHOOSE i \in 1..Len(operands) :
                     /\ ~ hasattr(operands[i], "reps")
                     /\ ~ hasattr(operands[i], "representations")
                     /\ common_representations(operands[i].items).raised # ""
                     /\ \A j \in 1..(i - 1) :
                           \/ hasattr(operands[j], "reps")
                           \/ hasattr(operands[j], "representations")
                           \/ common_representations(operands[j].items).raised
                                = ""
         IN  common_representations(operands[i].items).raised

\* ------------------------------------------------------------------------
\* session.py
\* ------------------------------------------------------------------------
can_retry_allow_first(sess, opname) ==
    IF sess.retry_allow # {} /\ opname \in sess.retry_allow THEN TRUE
    ELSE IF sess.retry_deny # {} /\ opname \in sess.retry_deny THEN FALSE
    ELSE sess.retry_allow = {}

\* Session.can_retry
can_retry(sess, opname) ==
    IF sess.retry_deny # {} /\ opname \in sess.retry_deny THEN FALSE
    ELSE IF sess.retry_allow # {} /\ opname \notin sess.retry_allow THEN FALSE
    ELSE TRUE

\* ------------------------------------------------------------------------
\* State
\* ------------------------------------------------------------------------
VARIABLES
    \* Operation.registry: the entries [sig, func] in insertion order
    registry,
    \* Operation.prototype: None, or the all-Any signature of the arity
    prototype,
    \* what the last Operation.register call did
    registered,
    \* number of Operation.register calls made
    nregs,
    \* Operation.dispatch: "idle", "loop" (at the head of the while loop),
    \* "done"
    dpc,
    \* the session argument of the dispatch
    session,
    \* the positional arguments (data objects) of the dispatch
    args,
    \* the local list resolution_order of the dispatch
    order,
    \* the local set visited of the dispatch
    visited,
    \* history: the implementations invoked, with what each one did
    calls,
    \* how the dispatch ended: returned a value or raised an error
    outcome

dispatchVars ==
    <<registry, prototype, registered, nregs, dpc, session, args, order,
      visited, calls, outcome>>

\* name of the operation
OpName == "op"

Specifiers == {Str("sql"), Str("rows")}

Matchers == Specifiers \cup {ANY_SPECIFIER}

\* the tuples of strings a signature is written with: of no operand (a
\* data source), of one or of two operands
SigTuples(arity) ==
    IF arity = 0 THEN {<<>>}
    ELSE IF arity = 1 THEN [1..1 -> Matchers]
    ELSE {<<Str("sql"), Str("sql")>>, <<Str("sql"), Str("rows")>>,
          <<Str("sql"), ANY_SPECIFIER>>, <<ANY_SPECIFIER, ANY_SPECIFIER>>}

Arities == {1, 2}

\* with the functions that take the context only
AllArities == {0} \cup Arities

\* tag lists of a data object, in its order of preference
TagLists ==
    {<<a>> : a \in Specifiers}
      \cup {<<a, b>> : <<a, b>> \in {p \in Specifiers \X Specifiers : p[1] # p[2]}}

DataObjects == {[reps |-> t] : t \in TagLists}

NameLists == {{}, {OpName}, {"other"}}

Sessions == [retry_allow : NameLists, retry_deny : NameLists]

\* what an invoked implementation does: it returns, or raises
\* RetryOperation(signature) where signature is None or a list of strings
Returns == [kind |-> "return", signature |-> None]

RetryOperation(signature) == [kind |-> "retry", signature |-> signature]

Behaviours(arity) ==
    {Returns, RetryOperation(None)}
      \cup {RetryOperation(t) : t \in SigTuples(arity)}

NoOutcome == [status |-> "none", error |-> "", value |-> 0]

Returned(func) == [status |-> "returned", error |-> "", value |-> func]

Raised(error) == [status |-> "raised", error |-> error, value |-> 0]

HasKey(reg, sig) == \E i \in 1..Len(reg) : reg[i].sig = sig

\* registry[sig]
Lookup(reg, sig) == reg[CHOOSE i \in 1..Len(reg) : reg[i].sig = sig].func

\* registry[sig] = func: a new key goes last, an old key keeps its place
SetItem(reg, sig, func) ==
    IF HasKey(reg, sig)
    THEN [i \in 1..Len(reg) |->
            IF reg[i].sig = sig THEN [sig |-> sig, func |-> func] ELSE reg[i]]
    ELSE Append(reg, [sig |-> sig, func |-> func])

visited_among_several(retry, seen) ==
    retry \in seen /\ Cardinality(seen) > 1

never_visited(retry, seen) == FALSE

\* the test "retry in visited" of Operation.dispatch
already_visited(retry, seen) == retry \in seen

insert_dropped(retry, rest) == rest

insert_last(retry, rest) == rest \o <<retry>>

\* resolution_order.insert(0, retry)
insert_first(retry, rest) == <<retry>> \o rest

DispatchInit ==
    /\ registry = <<>>
    /\ prototype = None
    /\ registered = "none"
    /\ nregs = 0
    /\ dpc = "idle"
    /\ session = [retry_allow |-> {}, retry_deny |-> {}]
    /\ args = <<>>
    /\ order = <<>>
    /\ visited = {}
    /\ calls = <<>>
    /\ outcome = NoOutcome

\* Operation.register(func), func being the nregs+1-th function registered
\* and sig its signature
register(types) ==
    /\ dpc = "idle"
    /\ nregs < MaxSigs
    /\ nregs' = nregs + 1
    /\ LET sig == Signature(types)
           func == nregs + 1
       IN  IF prototype # None /\ Len(prototype.operands) > 0
                /\ Len(sig.operands) # Len(prototype.operands)
           THEN /\ registered' = "ArgumentError"
                /\ UNCHANGED <<registry, prototype>>
           ELSE /\ registered' = "ok"
                /\ prototype' =
                     IF prototype = None
                     THEN [operands |-> [i \in 1..Len(sig.operands) |-> Any],
                           output |-> None]
                     ELSE prototype
                /\ registry' = SetItem(registry, sig, func)
    /\ UNCHANGED <<dpc, session, args, order, visited, calls, outcome>>

\* Operation.dispatch up to the while loop
dispatch_begin(sess, objs) ==
    /\ dpc = "idle"
    /\ prototype # None
    /\ Len(objs) = Len(prototype.operands)
    /\ session' = sess
    /\ args' = objs
    /\ visited' = {}
    /\ calls' = <<>>
    /\ LET reps == get_representations(objs)
           ro == resolution_order(registry, reps)
       IN  IF ro = <<>>
           THEN /\ outcome' = Raised("OperationError")
                /\ dpc' = "done"
                /\ order' = <<>>
           ELSE /\ outcome' = NoOutcome
                /\ dpc' = "loop"
                /\ order' = ro
    /\ UNCHANGED <<registry, prototype, registered, nregs>>

\* one turn of the while loop of Operation.dispatch: the head of the list
\* is popped and its implementation invoked
dispatch_attempt(behaviour) ==
    /\ dpc = "loop"
    /\ IF order = <<>>
       THEN /\ outcome' = Raised("RetryError")
            /\ dpc' = "done"
            /\ UNCHANGED <<order, visited, calls>>
       ELSE LET sig == Head(order)
                rest == Tail(order)
                seen == visited \cup {sig}
            IN  /\ visited' = seen
                /\ IF ~ HasKey(registry, sig)
                   THEN /\ outcome' = Raised("OperationError")
                        /\ dpc' = "done"
                        /\ order' = rest
                        /\ UNCHANGED calls
                   ELSE /\ calls' = Append(calls,
                                 [sig |-> sig, func |-> Lookup(registry, sig),
                                  did |-> behaviour])
                        /\ IF behaviour.kind = "return"
                           THEN /\ outcome' = Returned(Lookup(registry, sig))
                                /\ dpc' = "done"
                                /\ order' = rest
                           ELSE IF ~ can_retry(session, OpName)
                           THEN /\ outcome' = Raised("RetryError")
                                /\ dpc' = "done"
                                /\ order' = rest
                           ELSE IF behaviour.signature # None
                           THEN LET retry == Signature(behaviour.signature)
                                IN  IF already_visited(retry, seen)
                                    THEN /\ outcome' = Raised("RetryError")
                                         /\ dpc' = "done"
                                         /\ order' = rest
                                    ELSE /\ order' = insert_first(retry, rest)
                                         /\ UNCHANGED <<outcome, dpc>>
                           ELSE IF rest = <<>>
                           THEN /\ outcome' = Raised("IndexError")
                                /\ dpc' = "done"
                                /\ order' = rest
                           ELSE /\ order' = rest
                                /\ UNCHANGED <<outcome, dpc>>
    /\ UNCHANGED <<registry, prototype, registered, nregs, session, args>>

\* ------------------------------------------------------------------------
\* graph.py / execution/graph.py: Graph;  engine.py: ExecutionEngine
\* ------------------------------------------------------------------------
VARIABLES
    \* Graph.nodes: the entries [name, node] in insertion order; the name k
    \* stands for the string "node" + str(k)
    nodes,
    \* Graph._name_sequence
    name_sequence,
    \* Graph.connections: a set of Connection(source, target, outlet)
    connections,
    \* the exception the last Graph.add or Graph.connect call raised, or ""
    raised,
    \* history: the target and the outlet of the Graph.connect call that
    \* raised GraphError, while raised holds that error
    rejected,
    \* ExecutionEngine.run: "build" (not called yet), "sorting" (inside the
    \* while loop of sorted_nodes), "running" (inside the loop over the
    \* steps), "done", "failed"
    rpc,
    \* the exception that ended run(), or ""
    run_error,
    \* locals of Graph.sorted_nodes
    source_nodes,
    sn_connections,
    sorted_nodes,
    \* ExecutionPlan.steps: the entries [node, outlets]
    steps,
    \* ExecutionPlan.consumption
    consumption,
    \* ExecutionStep.result of the step of each node, by node id
    result,
    \* the local set consumed of run()
    consumed,
    \* number of steps evaluated
    stepi,
    \* history: the operands handed to evaluations, in order
    reads,
    \* history: the nodes whose result retained() was called on, in order
    retains,
    \* history: the step.evaluate calls made, each with the node and the
    \* error it raised ("" when it returned)
    evals

graphVars ==
    <<nodes, name_sequence, connections, raised, rejected, rpc, run_error,
      source_nodes, sn_connections, sorted_nodes, steps, consumption, result, consumed,
      stepi, reads, retains, evals>>

\* an operation whose implementation calls the operation above through the
\* same session (window_aggregate calling aggregate): its own dispatch
VARIABLES
    \* Operation.dispatch of the calling operation: "idle", "loop" (at the
    \* head of the while loop), "calling" (its implementation is inside the
    \* nested call), "done"
    opc,
    \* the locals resolution_order and visited of that dispatch
    oorder,
    ovisited,
    \* history: number of invocations of the calling implementation
    ocalls,
    \* history: number of RetryOperation signals that dispatch caught
    osignals,
    \* how that dispatch ended
    ooutcome

nestedVars == <<opc, oorder, ovisited, ocalls, osignals, ooutcome>>

\* execution/pipeline.py: Pipeline
VARIABLES
    \* Pipeline._test_if_needed, _test_if_satisfied: TRUE when a test
    \* pipeline has been created (the attribute is not None)
    p_test_if_needed,
    p_test_if_satisfied,
    \* Pipeline.run: "idle", "needed" (before the first if), "satisfied"
    \* (before the second if), "main" (before the third if), "done"
    ppc,
    \* the local variable run of Pipeline.run
    p_run,
    \* number of Pipeline.run calls made
    p_nruns,
    \* history: the engine.run calls of the current Pipeline.run, each with
    \* the graph run and how it ended
    p_runs,
    \* how Pipeline.run ended
    p_outcome

pipelineVars ==
    <<p_test_if_needed, p_test_if_satisfied, ppc, p_run, p_nruns, p_runs,
      p_outcome>>

\* op.py: a call signature.match(*operand_types)
VARIABLES
    \* the strings the signature was made of
    m_types,
    \* the argument operand_types
    m_operand_types,
    \* TRUE once match has been called
    m_called,
    \* the value match returned
    m_result

matchVars == <<m_types, m_operand_types, m_called, m_result>>

\* op.py: a call get_representations(*args)
VARIABLES
    \* the arguments
    r_args,
    \* the list of lists returned (<<>> before the call and when it raised)
    r_reps,
    \* "" before the call, then "returned" or the error raised
    r_ended

repsVars == <<r_args, r_reps, r_ended>>

\* the variables of the calls of the functions of op.py
pureVars == <<matchVars, repsVars>>

\* core.py: OperationContext, the operations under one name
VARIABLES
    \* the signatures of the operations in self.operations[name], in order
    operations,
    \* what self.operations[name] is: "absent" (no such key),
    \* "OperationList" or "list"
    oplist,
    \* OperationList.argument_count: None, or [count |-> n]
    argument_count,
    \* the error the last add_operation or remove_operation raised, or ""
    ctx_raised,
    \* history: the signature given to add_operation, when that was the last
    \* call (None otherwise)
    added

contextVars == <<operations, oplist, argument_count, ctx_raised, added>>

\* graph.py: ExecutionStep of the engine of that module
VARIABLES
    \* ExecutionStep._used of the step of each node, by node id
    step_used,
    \* history: the node whose result the property ExecutionStep.result
    \* refused to hand over (NoNode if none)
    twice

stepVars == <<step_used, twice>>

\* graph.py: a call Graph.targets(node)
VARIABLES
    \* the argument of the last call, NoNode when there was none
    t_node,
    \* the list returned, as the number of entries of each node in it (the
    \* order of the list is that of iterating the set of connections)
    t_nodes

targetsVars == <<t_node, t_nodes>>

\* core.py: OperationContext.call
VARIABLES
    \* OperationContext.retry_count
    retry_count,
    \* OperationContext.call: "new" (the context is not made yet), "idle",
    \* "first" (before the first invocation), "retry" (inside the for
    \* loop, before get_operation), "done"
    cpc,
    \* the data objects among the arguments of the call
    call_args,
    \* the local op of call: the place of the operation in the list
    call_op,
    \* the local signature of call: None, or <<signature>>
    retry_signature,
    \* the local retries of call
    retries,
    \* history: the signatures of the operations invoked, in order
    invoked,
    \* how the call ended
    call_outcome

callVars ==
    <<retry_count, cpc, call_args, call_op, retry_signature, retries,
      invoked, call_outcome>>

vars ==
    <<dispatchVars, graphVars, nestedVars, pipelineVars, pureVars,
      contextVars, stepVars, targetsVars, callVars>>

\* names of outlets used in connect()
OutletNames == {"default", "left", "right"}

\* kinds of nodes: an ObjectNode (a source), or a Node of an operation
OpNames == {"unary", "binary"}

NodeKinds == {"object"} \cup OpNames

\* context.operation_prototype(opname).operands: the operand names
operands_of(opname) ==
    IF opname = "unary" THEN <<"left">> ELSE <<"left", "right">>

\* NodeBase.outlets / Node.outlets
outlets(node) ==
    IF node.kind = "object" THEN <<>> ELSE operands_of(node.kind)

Connection(source, target, outlet) ==
    [source |-> source, target |-> target, outlet |-> outlet]

\* Graph.nodes.values()
NodeValues == {nodes[i].node : i \in 1..Len(nodes)}

NodeNames == {nodes[i].name : i \in 1..Len(nodes)}

\* Graph._generate_node_name: the sequence number the loop stops at
RECURSIVE generate_node_name(_, _)
generate_node_name(names, seq) ==
    IF seq \notin names THEN seq ELSE generate_node_name(names, seq + 1)

sources_of_source(conns, node) ==
    LET bound == {c \in conns : c.source = node}
    IN  [o \in {c.outlet : c \in bound} |->
            (CHOOSE c \in bound : c.outlet = o).source]

\* Graph.sources: the dictionary outlet -> source node of a target
sources(conns, node) ==
    LET bound == {c \in conns : c.target = node}
    IN  [o \in {c.outlet : c \in bound} |->
            (CHOOSE c \in bound : c.outlet = o).source]

is_source_by_source(node, conns) == \A c \in conns : c.source # node

\* is_source of Graph.sorted_nodes
is_source(node, conns) == \A c \in conns : c.target # node

target_connections(node, conns) == {c \in conns : c.target = node}

\* source_connections of Graph.sorted_nodes
source_connections(node, conns) == {c \in conns : c.source = node}

\* the data object of a step that has no result yet
NoResult ==
    [evaluated |-> FALSE, consumable |-> FALSE, retained |-> FALSE,
     exhausted |-> FALSE]

\* the data object an evaluation returns
NewObject(consumable) ==
    [evaluated |-> TRUE, consumable |-> consumable, retained |-> FALSE,
     exhausted |-> FALSE]

retained_as_it_is(obj) == obj

\* DataObject.retained(): a replacement holding what is left of the data
\* that can be read any number of times
retained(obj) ==
    [evaluated |-> TRUE, consumable |-> FALSE, retained |-> TRUE,
     exhausted |-> obj.exhausted]

\* a data object after an evaluation has read it: a consumable one is spent
Consume(obj) ==
    IF obj.consumable THEN [obj EXCEPT !.exhausted = TRUE] ELSE obj

NoNode == [id |-> 0, kind |-> "none"]

NoSlot == [target |-> NoNode, outlet |-> ""]

GraphInit ==
    /\ rejected = NoSlot
    /\ nodes = <<>>
    /\ name_sequence = 1
    /\ connections = {}
    /\ raised = ""
    /\ rpc = "build"
    /\ run_error = ""
    /\ source_nodes = {}
    /\ sn_connections = {}
    /\ sorted_nodes = <<>>
    /\ steps = <<>>
    /\ consumption = <<>>
    /\ result = <<>>
    /\ consumed = {}
    /\ stepi = 0
    /\ reads = <<>>
    /\ retains = <<>>
    /\ evals = <<>>

runVars ==
    <<rpc, run_error, source_nodes, sn_connections, sorted_nodes, steps,
      consumption, result, consumed, stepi, reads,
                   retains, evals>>

\* Graph.add(node) without a name: node is a new node object of the given
\* kind and its name is generated
add(kind) ==
    /\ rpc = "build"
    /\ Len(nodes) < MaxNodes
    /\ LET node == [id |-> Len(nodes) + 1, kind |-> kind]
           seq == generate_node_name(NodeNames, name_sequence)
       IN  /\ name_sequence' = seq
           /\ IF seq \in NodeNames
              THEN /\ raised' = "KeyError"
                   /\ UNCHANGED nodes
              ELSE /\ raised' = ""
                   /\ nodes' = Append(nodes, [name |-> seq, node |-> node])
    /\ rejected' = NoSlot
    /\ UNCHANGED <<connections, runVars>>

\* Graph.connect(source, target, outlet), both nodes being in the graph
connect(source, target, outlet) ==
    /\ rpc = "build"
    /\ source \in NodeValues
    /\ target \in NodeValues
    /\ IF outlet \in DOMAIN sources(connections, target)
       THEN /\ raised' = "GraphError"
            /\ rejected' = [target |-> target, outlet |-> outlet]
            /\ UNCHANGED connections
       ELSE /\ Cardinality(connections) < MaxConns
            /\ raised' = ""
            /\ rejected' = NoSlot
            /\ connections' =
                 connections \cup {Connection(source, target, outlet)}
    /\ UNCHANGED <<nodes, name_sequence, runVars>>

\* ExecutionEngine.run down to the while loop of Graph.sorted_nodes, which
\* execution_plan calls first
run_begin ==
    /\ rpc = "build"
    /\ rpc' = "sorting"
    /\ raised' = ""
    /\ rejected' = NoSlot
    /\ sn_connections' = connections
    /\ sorted_nodes' = <<>>
    /\ source_nodes' = {n \in NodeValues : is_source(n, connections)}
    /\ UNCHANGED <<nodes, name_sequence, connections, run_error, steps,
                   consumption, result, consumed, stepi, reads,
                   retains, evals>>

\* one turn of the while loop of Graph.sorted_nodes: node is the element
\* that source_nodes.pop() removes
sorted_nodes_step(node) ==
    /\ rpc = "sorting"
    /\ node \in source_nodes
    /\ sorted_nodes' = Append(sorted_nodes, node)
    /\ LET s_connections == source_connections(node, sn_connections)
           left == sn_connections \ s_connections
       IN  /\ sn_connections' = left
           /\ source_nodes' =
                (source_nodes \ {node})
                  \cup {c.target : c \in {d \in s_connections :
                                            is_source(d.target, left)}}
    /\ UNCHANGED <<nodes, name_sequence, connections, raised, rejected, rpc, run_error,
                   steps, consumption, result, consumed, stepi, reads,
                   retains, evals>>

Get_or_first(dict, key) ==
    IF key \in DOMAIN dict THEN dict[key] ELSE [id |-> 1, kind |-> "object"]

Get_any_source(dict, key) ==
    IF key \in DOMAIN dict THEN dict[key]
    ELSE IF "default" \in DOMAIN dict THEN dict["default"] ELSE NoNode

\* dict.get(key), NoNode standing for None
Get(dict, key) == IF key \in DOMAIN dict THEN dict[key] ELSE NoNode

\* the outlet nodes of a node, as the inner loop of execution_plan finds them
outlet_nodes(conns, node) ==
    LET srcs == sources(conns, node)
        names == outlets(node)
    IN  [i \in 1..Len(names) |->
           IF i = 1
           THEN (IF Get(srcs, names[i]) # NoNode THEN Get(srcs, names[i])
                 ELSE Get(srcs, "default"))
           ELSE Get(srcs, names[i])]

plan_steps_backwards(conns, snodes) ==
    [i \in 1..Len(snodes) |->
       [node |-> snodes[Len(snodes) + 1 - i],
        outlets |-> outlet_nodes(conns, snodes[Len(snodes) + 1 - i])]]

\* the steps of ExecutionEngine.execution_plan for the sorted nodes
plan_steps(conns, snodes) ==
    [i \in 1..Len(snodes) |->
       [node |-> snodes[i], outlets |-> outlet_nodes(conns, snodes[i])]]

consumption_of_first_outlets(plan, ids) ==
    [id \in ids |->
       Cardinality({i \in 1..Len(plan) :
                      /\ 1 <= Len(plan[i].outlets)
                      /\ plan[i].outlets[1].id = id})]

\* the Counter of ExecutionEngine.execution_plan, by node id
plan_consumption(plan, ids) ==
    [id \in ids |->
       Cardinality({<<i, j>> \in (1..Len(plan)) \X (1..2) :
                      /\ j <= Len(plan[i].outlets)
                      /\ plan[i].outlets[j].id = id})]

\* the end of Graph.sorted_nodes and the rest of
\* ExecutionEngine.execution_plan
execution_plan ==
    /\ rpc = "sorting"
    /\ source_nodes = {}
    /\ IF sn_connections # {}
       THEN /\ rpc' = "failed"
            /\ run_error' = "Exception"
            /\ UNCHANGED <<steps, consumption, result>>
       ELSE LET plan == plan_steps(connections, sorted_nodes)
            IN  IF \E i \in 1..Len(plan) : \E j \in 1..Len(plan[i].outlets) :
                      plan[i].outlets[j] = NoNode
                THEN /\ rpc' = "failed"
                     /\ run_error' = "BubblesError"
                     /\ UNCHANGED <<steps, consumption, result>>
                ELSE /\ rpc' = "running"
                     /\ steps' = plan
                     /\ consumption' =
                          plan_consumption(plan, 1..Len(nodes))
                     /\ result' = [id \in 1..Len(nodes) |-> NoResult]
                     /\ UNCHANGED run_error
    /\ UNCHANGED <<nodes, name_sequence, connections, raised, rejected,
                   source_nodes,
                   sn_connections, sorted_nodes, consumed, stepi, reads,
                   retains, evals>>

retain_when_consumed(obj, consume_times, node, seen) ==
    obj.consumable /\ consume_times > 1 /\ node \in seen

retain_any_count(obj, consume_times, node, seen) ==
    obj.consumable /\ node \notin seen

\* the two tests of ExecutionEngine.run that decide on retained()
needs_retain(obj, consume_times, node, seen) ==
    obj.consumable /\ consume_times > 1 /\ node \notin seen

\* the loop over step.outlets of ExecutionEngine.run
RECURSIVE gather(_, _, _, _)
gather(outs, reader, counts, st) ==
    IF outs = <<>> THEN st
    ELSE LET node == Head(outs)
             obj == st.result[node.id]
             retain == needs_retain(obj, counts[node.id], node, st.consumed)
             operand == IF retain THEN retained(obj) ELSE obj
         IN  gather(Tail(outs), reader, counts,
                    [result |-> [st.result EXCEPT ![node.id] = operand],
                     consumed |-> st.consumed \cup {node},
                     reads |-> Append(st.reads,
                                      [node |-> node, reader |-> reader,
                                       operand |-> operand]),
                     retains |-> IF retain
                                 THEN Append(st.retains,
                                             [node |-> node, obj |-> obj])
                                 ELSE st.retains])

\* the errors a dispatch ends with, raised by step.evaluate
EvalErrors == {"OperationError", "RetryError"}

evaluate_guarded(error, last) == IF last THEN "done" ELSE "running"

\* where run() stands after step.evaluate: an error raised by it leaves the
\* loop and run(), the last step ends the loop
after_evaluate(error, last) ==
    IF error # "" THEN "failed" ELSE IF last THEN "done" ELSE "running"

\* one turn of the loop over plan.steps of ExecutionEngine.run: the operands
\* are gathered and the step is evaluated; the evaluation reads its operands
\* and returns a data object, or raises error (error is "" when it returns)
run_step(error, consumable) ==
    /\ rpc = "running"
    /\ stepi < Len(steps)
    /\ LET step == steps[stepi + 1]
           st == gather(step.outlets, step.node, consumption,
                        [result |-> result, consumed |-> consumed,
                         reads |-> reads, retains |-> retains])
           used == {step.outlets[j].id : j \in 1..Len(step.outlets)}
           after == [id \in DOMAIN st.result |->
                       IF id \in used THEN Consume(st.result[id])
                       ELSE st.result[id]]
       IN  /\ consumed' = st.consumed
           /\ reads' = st.reads
           /\ retains' = st.retains
           /\ evals' = Append(evals, [node |-> step.node, error |-> error])
           /\ rpc' = after_evaluate(error, stepi + 1 = Len(steps))
           /\ IF error = ""
              THEN /\ result' =
                        [after EXCEPT ![step.node.id] = NewObject(consumable)]
                   /\ stepi' = stepi + 1
                   /\ UNCHANGED run_error
              ELSE /\ consumable = FALSE
                   /\ result' = after
                   /\ run_error' = error
                   /\ UNCHANGED stepi
    /\ UNCHANGED <<nodes, name_sequence, connections, raised, rejected,
                   source_nodes, sn_connections, sorted_nodes, steps,
                   consumption>>

\* ------------------------------------------------------------------------
\* op.py: a dispatch nested in an implementation of another operation
\* ------------------------------------------------------------------------
\* name of the calling operation
OuterName == "outer"

\* registry of the calling operation: one implementation, for "sql"
\* operands, which calls the other operation with its own arguments and
\* returns once the call has returned
OuterRegistry(arity) ==
    <<[sig |-> Signature([i \in 1..arity |-> Str("sql")]), func |-> 0]>>

NestedInit ==
    /\ opc = "idle"
    /\ oorder = <<>>
    /\ ovisited = {}
    /\ ocalls = 0
    /\ osignals = 0
    /\ ooutcome = NoOutcome

is_retry_signal_or_error(error) == error \in {"RetryOperation", "RetryError"}

\* "except RetryOperation": the exceptions the clause catches
is_retry_signal(error) == error = "RetryOperation"

\* Operation.dispatch of the calling operation up to the while loop
outer_begin(sess, objs) ==
    /\ opc = "idle"
    /\ dpc = "idle"
    /\ prototype # None
    /\ Len(objs) = Len(prototype.operands)
    /\ session' = sess
    /\ args' = objs
    /\ ovisited' = {}
    /\ ocalls' = 0
    /\ osignals' = 0
    /\ LET ro == resolution_order(OuterRegistry(Len(objs)),
                                  get_representations(objs))
       IN  IF ro = <<>>
           THEN /\ ooutcome' = Raised("OperationError")
                /\ opc' = "done"
                /\ oorder' = <<>>
           ELSE /\ ooutcome' = NoOutcome
                /\ opc' = "loop"
                /\ oorder' = ro
    /\ UNCHANGED <<registry, prototype, registered, nregs, dpc, order,
                   visited, calls, outcome>>

\* one turn of the while loop of that dispatch, down to the nested call the
\* invoked implementation makes: Operation.dispatch of the called operation
\* begins
outer_attempt ==
    /\ opc = "loop"
    /\ IF oorder = <<>>
       THEN /\ ooutcome' = Raised("RetryError")
            /\ opc' = "done"
            /\ UNCHANGED <<oorder, ovisited, ocalls, dispatchVars>>
       ELSE /\ ovisited' = ovisited \cup {Head(oorder)}
            /\ oorder' = Tail(oorder)
            /\ IF ~ HasKey(OuterRegistry(Len(args)), Head(oorder))
               THEN /\ ooutcome' = Raised("OperationError")
                    /\ opc' = "done"
                    /\ UNCHANGED <<ocalls, dispatchVars>>
               ELSE /\ ocalls' = ocalls + 1
                    /\ opc' = "calling"
                    /\ dispatch_begin(session, args)
                    /\ UNCHANGED ooutcome
    /\ UNCHANGED osignals

\* the nested call returns or raises: the calling implementation returns
\* after a call that returned, an error of the call leaves the
\* implementation, and the dispatch of the calling operation catches it if
\* it is a RetryOperation (which carries no signature here)
outer_resume ==
    /\ opc = "calling"
    /\ dpc = "done"
    /\ dpc' = "idle"
    /\ IF outcome.status = "returned"
       THEN /\ ooutcome' = Returned(0)
            /\ opc' = "done"
            /\ UNCHANGED osignals
       ELSE IF ~ is_retry_signal(outcome.error)
       THEN /\ ooutcome' = Raised(outcome.error)
            /\ opc' = "done"
            /\ UNCHANGED osignals
       ELSE /\ osignals' = osignals + 1
            /\ IF ~ can_retry(session, OuterName)
               THEN ooutcome' = Raised("RetryError") /\ opc' = "done"
               ELSE IF oorder = <<>>
               THEN ooutcome' = Raised("IndexError") /\ opc' = "done"
               ELSE opc' = "loop" /\ UNCHANGED ooutcome
    /\ UNCHANGED <<registry, prototype, registered, nregs, session, args,
                   order, visited, calls, outcome, oorder, ovisited, ocalls>>

\* ------------------------------------------------------------------------
\* execution/pipeline.py: Pipeline.run
\* ------------------------------------------------------------------------
\* how an engine.run call ends: it returns ("") or raises the error
EngineResults == {"", "ProbeAssertionError", "OperationError", "BubblesError"}

\* how Pipeline.run ends: it returns a value (engine.run returns None) or
\* raises the error
NotEnded == [status |-> "none", error |-> "", value |-> "None"]

RunReturned(value) == [status |-> "returned", error |-> "", value |-> value]

RunRaised(error) == [status |-> "raised", error |-> error, value |-> "None"]

PipelineInit ==
    /\ p_test_if_needed = FALSE
    /\ p_test_if_satisfied = FALSE
    /\ ppc = "idle"
    /\ p_run = TRUE
    /\ p_nruns = 0
    /\ p_runs = <<>>
    /\ p_outcome = NotEnded

\* Pipeline.test_if_needed
test_if_needed ==
    /\ ppc = "idle"
    /\ p_nruns = 0
    /\ p_test_if_needed' = TRUE
    /\ UNCHANGED <<p_test_if_satisfied, ppc, p_run, p_nruns, p_runs,
                   p_outcome>>

\* Pipeline.test_if_satisfied
test_if_satisfied ==
    /\ ppc = "idle"
    /\ p_nruns = 0
    /\ p_test_if_satisfied' = TRUE
    /\ UNCHANGED <<p_test_if_needed, ppc, p_run, p_nruns, p_runs, p_outcome>>

\* Pipeline.run down to the first if
pipeline_run_begin ==
    /\ ppc \in {"idle", "done"}
    /\ p_nruns < MaxRuns
    /\ p_nruns' = p_nruns + 1
    /\ ppc' = "needed"
    /\ p_run' = TRUE
    /\ p_runs' = <<>>
    /\ p_outcome' = NotEnded
    /\ UNCHANGED <<p_test_if_needed, p_test_if_satisfied>>

run_whatever_needed(ended) == TRUE

\* the value of run after the first try statement of Pipeline.run
run_after_needed(ended) == ended # "ProbeAssertionError"

\* the first if of Pipeline.run: ended is how engine.run ends when called
pipeline_needed(ended) ==
    /\ ppc = "needed"
    /\ IF p_test_if_needed
       THEN /\ p_runs' = Append(p_runs, [graph |-> "test_if_needed",
                                         result |-> ended])
            /\ IF ended \in {"", "ProbeAssertionError"}
               THEN /\ p_run' = run_after_needed(ended)
                    /\ ppc' = "satisfied"
                    /\ UNCHANGED p_outcome
               ELSE /\ p_outcome' = RunRaised(ended)
                    /\ ppc' = "done"
                    /\ UNCHANGED p_run
       ELSE /\ ended = ""
            /\ ppc' = "satisfied"
            /\ UNCHANGED <<p_run, p_runs, p_outcome>>
    /\ UNCHANGED <<p_test_if_needed, p_test_if_satisfied, p_nruns>>

\* the second if of Pipeline.run
pipeline_satisfied(ended) ==
    /\ ppc = "satisfied"
    /\ IF p_run /\ p_test_if_satisfied
       THEN /\ p_runs' = Append(p_runs, [graph |-> "test_if_satisfied",
                                         result |-> ended])
            /\ IF ended = ""
               THEN ppc' = "main" /\ UNCHANGED p_outcome
               ELSE ppc' = "done" /\ p_outcome' = RunRaised(ended)
       ELSE /\ ended = ""
            /\ ppc' = "main"
            /\ UNCHANGED <<p_runs, p_outcome>>
    /\ UNCHANGED <<p_test_if_needed, p_test_if_satisfied, p_run, p_nruns>>

\* the third if of Pipeline.run and its return
pipeline_main(ended) ==
    /\ ppc = "main"
    /\ ppc' = "done"
    /\ IF p_run
       THEN /\ p_runs' = Append(p_runs, [graph |-> "graph",
                                         result |-> ended])
            /\ p_outcome' = IF ended = "" THEN RunReturned("None")
                            ELSE RunRaised(ended)
       ELSE /\ ended = ""
            /\ p_outcome' = RunReturned("None")
            /\ UNCHANGED p_runs
    /\ UNCHANGED <<p_test_if_needed, p_test_if_satisfied, p_run, p_nruns>>

\* ------------------------------------------------------------------------
\* op.py: Signature.match called on its own
\* ------------------------------------------------------------------------
\* a type string with the list suffix
ListOf(specifier) == specifier \o <<"[]">>

\* the strings a signature operand is written with
MatcherStrings == Matchers \cup {ListOf(m) : m \in Matchers}

\* the representation strings of operands
OperandStrings == Specifiers \cup {ListOf(t) : t \in Specifiers}

\* tuples of 0, 1 or 2 members of the set
UpToTwo(S) == {<<>>} \cup {<<a>> : a \in S} \cup (S \X S)

MatchInit ==
    /\ m_types = <<>>
    /\ m_operand_types = <<>>
    /\ m_called = FALSE
    /\ m_result = FALSE

\* Signature(*types).match(*operand_types)
signature_match(types, operand_types) ==
    /\ ~ m_called
    /\ m_types' = types
    /\ m_operand_types' = operand_types
    /\ m_called' = TRUE
    /\ m_result' = match(Signature(types), operand_types)

\* ------------------------------------------------------------------------
\* op.py: get_representations called on its own
\* ------------------------------------------------------------------------
\* data objects that give their tags by the deprecated method
\* representations(), as the data objects of objects.py do
DeprecatedObjects == {[representations |-> t] : t \in TagLists}

\* lists of data objects
ObjectLists ==
    {[items |-> l] :
       l \in UNION {[1..n -> DataObjects \cup DeprecatedObjects] :
                      n \in 0..MaxMembers}}

Operands == DataObjects \cup DeprecatedObjects \cup ObjectLists

RepresentationsInit ==
    /\ r_args = <<>>
    /\ r_reps = <<>>
    /\ r_ended = ""

\* get_representations(*operands)
call_get_representations(operands) ==
    /\ r_ended = ""
    /\ r_args' = operands
    /\ IF get_representations_raises(operands) = ""
       THEN /\ r_reps' = get_representations(operands)
            /\ r_ended' = "returned"
       ELSE /\ r_reps' = <<>>
            /\ r_ended' = get_representations_raises(operands)

\* ------------------------------------------------------------------------
\* graph.py: ExecutionStep and ExecutionEngine of that module
\* ------------------------------------------------------------------------
StepInit ==
    /\ step_used = <<>>
    /\ twice = NoNode

\* the end of Graph.sorted_nodes and the rest of
\* ExecutionEngine.prepare_execution_plan of graph.py, which finds the
\* outlet nodes as execution_plan of engine.py does; every ExecutionStep is
\* made with _used = False
prepare_execution_plan ==
    /\ rpc = "sorting"
    /\ source_nodes = {}
    /\ IF sn_connections # {}
       THEN /\ rpc' = "failed"
            /\ run_error' = "Exception"
            /\ UNCHANGED <<steps, result, step_used>>
       ELSE LET plan == plan_steps(connections, sorted_nodes)
            IN  IF \E i \in 1..Len(plan) : \E j \in 1..Len(plan[i].outlets) :
                      plan[i].outlets[j] = NoNode
                THEN /\ rpc' = "failed"
                     /\ run_error' = "BubblesError"
                     /\ UNCHANGED <<steps, result, step_used>>
                ELSE /\ rpc' = "running"
                     /\ steps' = plan
                     /\ result' = [id \in 1..Len(nodes) |-> NoResult]
                     /\ step_used' = [id \in 1..Len(nodes) |-> FALSE]
                     /\ UNCHANGED run_error
    /\ UNCHANGED <<nodes, name_sequence, connections, raised, rejected,
                   source_nodes, sn_connections, sorted_nodes, consumption,
                   consumed, stepi, reads, retains, evals, twice>>

\* the test of the property ExecutionStep.result that raises BubblesError
used_twice(flag, obj) == flag /\ obj.consumable

\* the list comprehension [o.result for o in step.outlets] of
\* ExecutionEngine.run: the property is read outlet by outlet until it
\* raises
RECURSIVE read_results(_, _, _)
read_results(outs, reader, st) ==
    IF outs = <<>> THEN st
    ELSE LET node == Head(outs)
         IN  IF used_twice(st.used[node.id], result[node.id])
             THEN [st EXCEPT !.twice = node]
             ELSE read_results(
                    Tail(outs), reader,
                    [used |-> [st.used EXCEPT ![node.id] = TRUE],
                     reads |-> Append(st.reads,
                                      [node |-> node, reader |-> reader,
                                       operand |-> result[node.id]]),
                     twice |-> NoNode])

\* the return statement of ExecutionStep.evaluate reads the property
\* result of the step itself, which sets _used
evaluate_returns(flags, id) == [flags EXCEPT ![id] = TRUE]

\* one turn of the loop over the plan of ExecutionEngine.run of graph.py:
\* the results of the outlets are read and the step is evaluated
graph_run_step(error, consumable) ==
    /\ rpc = "running"
    /\ stepi < Len(steps)
    /\ LET step == steps[stepi + 1]
           st == read_results(step.outlets, step.node,
                              [used |-> step_used, reads |-> reads,
                               twice |-> NoNode])
           ids == {step.outlets[j].id : j \in 1..Len(step.outlets)}
           after == [id \in DOMAIN result |->
                       IF id \in ids THEN Consume(result[id])
                       ELSE result[id]]
       IN  /\ reads' = st.reads
           /\ twice' = st.twice
           /\ IF st.twice # NoNode
              THEN /\ error = ""
                   /\ consumable = FALSE
                   /\ rpc' = "failed"
                   /\ run_error' = "BubblesError"
                   /\ step_used' = st.used
                   /\ UNCHANGED <<result, stepi, evals>>
              ELSE /\ evals' = Append(evals, [node |-> step.node,
                                              error |-> error])
                   /\ rpc' = after_evaluate(error, stepi + 1 = Len(steps))
                   /\ IF error = ""
                      THEN /\ result' = [after EXCEPT ![step.node.id] =
                                           NewObject(consumable)]
                           /\ step_used' =
                                evaluate_returns(st.used, step.node.id)
                           /\ stepi' = stepi + 1
                           /\ UNCHANGED run_error
                      ELSE /\ consumable = FALSE
                           /\ result' = after
                           /\ step_used' = st.used
                           /\ run_error' = error
                           /\ UNCHANGED stepi
    /\ UNCHANGED <<nodes, name_sequence, connections, raised, rejected,
                   source_nodes, sn_connections, sorted_nodes, steps,
                   consumption, consumed, retains>>

\* ------------------------------------------------------------------------
\* graph.py: Graph.targets
\* ------------------------------------------------------------------------
\* Graph.targets: the list [conn.target for conn in self.connections if
\* conn.target == node], as the number of entries of each node
targets(conns, node) ==
    LET selected == {c \in conns : c.target = node}
    IN  [m \in {c.target : c \in selected} |->
           Cardinality({c \in selected : c.target = m})]

TargetsInit ==
    /\ t_node = NoNode
    /\ t_nodes = <<>>

\* graph.targets(node) for a node of the graph
call_targets(node) ==
    /\ t_node' = node
    /\ t_nodes' = targets(connections, node)
    /\ UNCHANGED graphVars

\* ------------------------------------------------------------------------
\* core.py: OperationContext.add_operation, remove_operation
\* ------------------------------------------------------------------------
\* the signatures of core.py are tuples of representation strings
ContextSignatures == UNION {SigTuples(ar) : ar \in AllArities}

ContextInit ==
    /\ operations = <<>>
    /\ oplist = "absent"
    /\ argument_count = None
    /\ ctx_raised = ""
    /\ added = None

\* OperationList.append(op), op having the signature: the error raised (""
\* when the operation is appended).  The message of the ArgumentError is
\* formatted with len(op.signature, op, self.argument_count), and that call
\* of len raises TypeError.
OperationList_append(count, signature) ==
    IF count # None /\ Len(signature) # count.count THEN "TypeError" ELSE ""

\* OperationContext.add_operation(op), op having the name and the signature
add_operation(signature) ==
    /\ Len(operations) < MaxOps
    /\ added' = <<signature>>
    /\ IF \E i \in 1..Len(operations) : operations[i] = signature
       THEN /\ ctx_raised' = "ArgumentError"
            /\ UNCHANGED <<operations, oplist, argument_count>>
       ELSE IF oplist = "list"
       THEN /\ operations' = Append(operations, signature)
            /\ ctx_raised' = ""
            /\ UNCHANGED <<oplist, argument_count>>
       ELSE LET count == IF oplist = "absent" \/ argument_count = None
                         THEN [count |-> Len(signature)]
                         ELSE argument_count
                error == OperationList_append(count, signature)
            IN  /\ oplist' = "OperationList"
                /\ argument_count' = count
                /\ ctx_raised' = error
                /\ operations' = IF error = ""
                                 THEN Append(operations, signature)
                                 ELSE operations

\* OperationContext.remove_operation(name, signature); signature is None
\* when it is left out
remove_operation(signature) ==
    /\ ctx_raised' = ""
    /\ added' = None
    /\ IF oplist = "absent" \/ operations = <<>>
       THEN UNCHANGED <<operations, oplist, argument_count>>
       ELSE IF signature = None \/ Len(signature[1]) = 0
       THEN /\ operations' = <<>>
            /\ oplist' = "absent"
            /\ argument_count' = None
       ELSE /\ operations' =
                 Filter(operations, Range(operations) \ {signature[1]})
            /\ oplist' = "list"
            /\ argument_count' = None

\* ------------------------------------------------------------------------
\* core.py: OperationContext.call
\* ------------------------------------------------------------------------
\* rep_to_operand
rep_to_operand(representation) ==
    LET islist == Len(representation) >= 1
                    /\ representation[Len(representation)] = "[]"
        optype == IF islist
                  THEN SubSeq(representation, 1, Len(representation) - 1)
                  ELSE representation
    IN  [rep |-> optype, islist |-> islist, isany |-> optype = Str("*")]

\* Signature.matches of core.py
matches(signature, operands) ==
    /\ Len(operands) = Len(signature)
    /\ \A i \in 1..Len(signature) :
          LET mine == rep_to_operand(signature[i])
              their == rep_to_operand(operands[i])
          IN  /\ mine.islist = their.islist
              /\ mine.isany \/ mine.rep = their.rep

\* extract_signatures for data objects
extract_signatures(objects) ==
    [i \in 1..Len(objects) |-> objects[i].representations]

\* OperationContext.lookup_operation: the place in the list of the first
\* operation that matches, for the first combination of representations
\* that any operation matches; 0 stands for the OperationError raised when
\* there is none
lookup_operation(ops, objlist) ==
    LET combos == product(extract_signatures(objlist))
        hits == {<<c, i>> \in (1..Len(combos)) \X (1..Len(ops)) :
                   matches(ops[i], combos[c])}
    IN  IF hits = {} THEN 0
        ELSE (CHOOSE h \in hits :
                \A g \in hits :
                   h[1] < g[1] \/ (h[1] = g[1] /\ h[2] <= g[2]))[2]

\* OperationContext.get_operation(name, signature): the place in the list
\* of the first operation of that signature, 0 standing for the
\* OperationError raised when there is none; signature is None or
\* <<signature>>
get_operation(ops, signature) ==
    LET hits == {i \in 1..Len(ops) :
                   signature # None /\ ops[i] = signature[1]}
    IN  IF hits = {} THEN 0 ELSE CHOOSE i \in hits : \A j \in hits : i <= j

\* what an operation function does when invoked: it returns, or raises
\* RetryOperation(signature)
CallBehaviours ==
    {Returns}
      \cup {RetryOperation(signature) :
              signature \in {None} \cup {<<t>> : t \in ContextSignatures}}

CallInit ==
    /\ retry_count = 0
    /\ cpc = "new"
    /\ call_args = <<>>
    /\ call_op = 0
    /\ retry_signature = None
    /\ retries = 0
    /\ invoked = <<>>
    /\ call_outcome = NoOutcome

\* OperationContext(retry_count=count)
OperationContext_init(count) ==
    /\ cpc = "new"
    /\ cpc' = "idle"
    /\ retry_count' = count
    /\ UNCHANGED <<call_args, call_op, retry_signature, retries, invoked,
                   call_outcome>>
    /\ UNCHANGED contextVars

retry_limit_plus_one(done, limit) == done > limit

\* the for loop of call has run range(0, retry_count) out
retry_limit_reached(done, limit) == done >= limit

\* OperationContext.call down to the first invocation
call_begin(objs) ==
    /\ cpc = "idle"
    /\ call_args' = objs
    /\ IF oplist = "absent" \/ operations = <<>>
       THEN /\ call_outcome' = Raised("OperationError")
            /\ cpc' = "done"
            /\ oplist' = IF oplist = "absent" THEN "OperationList"
                         ELSE oplist
            /\ UNCHANGED <<call_op, operations, argument_count>>
       ELSE IF oplist = "list"
       THEN /\ call_outcome' = Raised("AttributeError")
            /\ cpc' = "done"
            /\ UNCHANGED <<call_op, operations, oplist, argument_count>>
       ELSE /\ Len(objs) = argument_count.count
            /\ call_op' = lookup_operation(operations, objs)
            /\ IF lookup_operation(operations, objs) = 0
               THEN /\ call_outcome' = Raised("OperationError")
                    /\ cpc' = "done"
               ELSE /\ cpc' = "first"
                    /\ UNCHANGED call_outcome
            /\ UNCHANGED <<operations, oplist, argument_count>>
    /\ UNCHANGED <<retry_count, retry_signature, retries, invoked,
                   ctx_raised, added>>

\* the first invocation of call: op.function(self, *args, **kwargs) in the
\* outer try statement
call_first(behaviour) ==
    /\ cpc = "first"
    /\ invoked' = Append(invoked, operations[call_op])
    /\ IF behaviour.kind = "return"
       THEN /\ call_outcome' = Returned(call_op)
            /\ cpc' = "done"
            /\ UNCHANGED retry_signature
       ELSE /\ retry_signature' = behaviour.signature
            /\ IF retry_limit_reached(0, retry_count)
               THEN /\ call_outcome' = Raised("RetryError")
                    /\ cpc' = "done"
               ELSE /\ cpc' = "retry"
                    /\ UNCHANGED call_outcome
    /\ UNCHANGED <<retry_count, call_args, call_op, retries>>
    /\ UNCHANGED contextVars

\* one turn of the for loop of call
call_retry(behaviour) ==
    /\ cpc = "retry"
    /\ LET op == get_operation(operations, retry_signature)
       IN  IF op = 0
           THEN /\ behaviour = Returns
                /\ call_outcome' = Raised("OperationError")
                /\ cpc' = "done"
                /\ UNCHANGED <<call_op, retries, invoked, retry_signature>>
           ELSE /\ call_op' = op
                /\ retries' = retries + 1
                /\ invoked' = Append(invoked, operations[op])
                /\ IF behaviour.kind = "return"
                   THEN /\ call_outcome' = Returned(op)
                        /\ cpc' = "done"
                        /\ UNCHANGED retry_signature
                   ELSE /\ retry_signature' = behaviour.signature
                        /\ IF retry_limit_reached(retries + 1, retry_count)
                           THEN /\ call_outcome' = Raised("RetryError")
                                /\ cpc' = "done"
                           ELSE UNCHANGED <<cpc, call_outcome>>
    /\ UNCHANGED <<retry_count, call_args>>
    /\ UNCHANGED contextVars

\* ------------------------------------------------------------------------
\* Specifications
\* ------------------------------------------------------------------------
Arity == Len(prototype.operands)

\* no implementation registered, an empty graph, a pipeline without tests
Init ==
    DispatchInit /\ GraphInit /\ NestedInit /\ PipelineInit /\ MatchInit
      /\ RepresentationsInit /\ ContextInit /\ StepInit /\ TargetsInit
      /\ CallInit

DispatchNext ==
    \/ \E ar \in Arities : \E types \in SigTuples(ar) : register(types)
    \/ /\ dpc = "idle"
       /\ prototype # None
       /\ \E sess \in Sessions : \E objs \in [1..Arity -> DataObjects] :
             dispatch_begin(sess, objs)
    \/ /\ dpc = "loop"
       /\ \E behaviour \in Behaviours(Arity) : dispatch_attempt(behaviour)

\* an operation is set up by register calls and then dispatched once
SpecDispatch ==
    /\ Init
    /\ [][DispatchNext
            /\ UNCHANGED <<graphVars, nestedVars, pipelineVars, pureVars, contextVars, stepVars,
                           targetsVars, callVars>>]_vars

\* the while loop of a dispatch goes on: every implementation invoked
\* returns or raises
DispatchFairness ==
    WF_dispatchVars(dpc = "loop"
                      /\ \E behaviour \in Behaviours(Arity) :
                            dispatch_attempt(behaviour))

\* ... and the dispatch that was begun runs to its end
SpecDispatchLive == SpecDispatch /\ DispatchFairness

RegisterNext ==
    \E ar \in AllArities : \E types \in SigTuples(ar) : register(types)

\* functions with and without operands are registered under one operation
SpecRegister ==
    /\ Init
    /\ [][RegisterNext
            /\ UNCHANGED <<graphVars, nestedVars, pipelineVars, pureVars, contextVars, stepVars,
                           targetsVars, callVars>>]_vars

NestedNext ==
    \/ /\ opc = "idle"
       /\ \E ar \in Arities : \E types \in SigTuples(ar) : register(types)
       /\ UNCHANGED nestedVars
    \/ /\ opc = "idle"
       /\ prototype # None
       /\ \E sess \in Sessions : \E objs \in [1..Arity -> DataObjects] :
             outer_begin(sess, objs)
    \/ outer_attempt
    \/ /\ opc = "calling"
       /\ dpc = "loop"
       /\ \E behaviour \in Behaviours(Arity) : dispatch_attempt(behaviour)
       /\ UNCHANGED nestedVars
    \/ outer_resume

\* an operation is set up by register calls and then called once from an
\* implementation of another operation
SpecNested ==
    /\ Init
    /\ [][NestedNext
            /\ UNCHANGED <<graphVars, pipelineVars, pureVars, contextVars, stepVars,
                           targetsVars, callVars>>]_vars

EngineNext ==
    \/ \E kind \in NodeKinds : add(kind)
    \/ \E source \in NodeValues : \E target \in NodeValues :
          \E outlet \in OutletNames : connect(source, target, outlet)
    \/ run_begin
    \/ \E node \in source_nodes : sorted_nodes_step(node)
    \/ execution_plan
    \/ \E error \in {""} \cup EvalErrors : \E consumable \in BOOLEAN :
          run_step(error, consumable)

\* a graph is built by add and connect calls and then run once
SpecEngine ==
    /\ Init
    /\ [][EngineNext
            /\ UNCHANGED <<dispatchVars, nestedVars, pipelineVars,
                           pureVars, contextVars, stepVars,
                           targetsVars, callVars>>]_vars

PipelineNext ==
    \/ test_if_needed
    \/ test_if_satisfied
    \/ pipeline_run_begin
    \/ \E ended \in EngineResults : pipeline_needed(ended)
    \/ \E ended \in EngineResults : pipeline_satisfied(ended)
    \/ \E ended \in EngineResults : pipeline_main(ended)

\* a pipeline is given its tests and then run
SpecPipeline ==
    /\ Init
    /\ [][PipelineNext
            /\ UNCHANGED <<dispatchVars, graphVars, nestedVars,
                           pureVars, contextVars, stepVars,
                           targetsVars, callVars>>]_vars

MatchNext ==
    \E types \in UpToTwo(MatcherStrings) :
       \E operand_types \in UpToTwo(OperandStrings) :
          signature_match(types, operand_types)

\* signatures are matched against operand types
SpecMatch ==
    /\ Init
    /\ [][MatchNext
            /\ UNCHANGED <<dispatchVars, graphVars, nestedVars,
                           pipelineVars, repsVars, contextVars, stepVars,
                           targetsVars, callVars>>]_vars

ContextNext ==
    \/ \E signature \in ContextSignatures : add_operation(signature)
    \/ \E signature \in {None} \cup {<<sig>> : sig \in ContextSignatures} :
          remove_operation(signature)

\* operations are added to a context under one name and removed from it
SpecContext ==
    /\ Init
    /\ [][ContextNext
            /\ UNCHANGED <<dispatchVars, graphVars, nestedVars,
                           pipelineVars, pureVars, stepVars,
                           targetsVars, callVars>>]_vars

GraphEngineNext ==
    \/ \E kind \in NodeKinds : add(kind) /\ UNCHANGED stepVars
    \/ \E source \in NodeValues : \E target \in NodeValues :
          \E outlet \in OutletNames :
             connect(source, target, outlet) /\ UNCHANGED stepVars
    \/ run_begin /\ UNCHANGED stepVars
    \/ \E node \in source_nodes :
          sorted_nodes_step(node) /\ UNCHANGED stepVars
    \/ prepare_execution_plan
    \/ \E error \in {""} \cup EvalErrors : \E consumable \in BOOLEAN :
          graph_run_step(error, consumable)

\* a graph is built and then run once by the engine of graph.py
SpecGraphEngine ==
    /\ Init
    /\ [][GraphEngineNext
            /\ UNCHANGED <<dispatchVars, nestedVars, pipelineVars, pureVars,
                           contextVars, targetsVars, callVars>>]_vars

CallNext ==
    \/ \E count \in 0..MaxRetryCount : OperationContext_init(count)
    \/ /\ cpc = "idle"
       /\ \E signature \in ContextSignatures : add_operation(signature)
       /\ UNCHANGED callVars
    \/ \E objs \in UNION {[1..n -> DeprecatedObjects] : n \in AllArities} :
          call_begin(objs)
    \/ \E behaviour \in CallBehaviours : call_first(behaviour)
    \/ \E behaviour \in CallBehaviours : call_retry(behaviour)

\* a context is made, operations are added to it under one name and the
\* name is called once
SpecCall ==
    /\ Init
    /\ [][CallNext
            /\ UNCHANGED <<dispatchVars, graphVars, nestedVars,
                           pipelineVars, pureVars, stepVars,
                           targetsVars>>]_vars

TargetsNext ==
    \/ /\ t_node = NoNode
       /\ \E kind \in NodeKinds : add(kind)
       /\ UNCHANGED targetsVars
    \/ /\ t_node = NoNode
       /\ \E source \in NodeValues : \E target \in NodeValues :
             \E outlet \in OutletNames : connect(source, target, outlet)
       /\ UNCHANGED targetsVars
    \/ \E node \in NodeValues : call_targets(node)

\* a graph is built and then asked for the targets of its nodes
SpecTargets ==
    /\ Init
    /\ [][TargetsNext
            /\ UNCHANGED <<dispatchVars, nestedVars, pipelineVars, pureVars,
                           contextVars, stepVars, callVars>>]_vars

RepresentationsNext ==
    \E operand \in Operands : call_get_representations(<<operand>>)

\* the representations of data objects and of lists of them are taken
SpecRepresentations ==
    /\ Init
    /\ [][RepresentationsNext
            /\ UNCHANGED <<dispatchVars, graphVars, nestedVars,
                           pipelineVars, matchVars, contextVars, stepVars,
                           targetsVars, callVars>>]_vars

\* ------------------------------------------------------------------------
\* Properties of Operation.dispatch
\* ------------------------------------------------------------------------
\* Signature contains at least one Any (a generic signature)
HasAny(sig) == \E i \in 1..Len(sig.operands) : sig.operands[i] = Any

\* the signatures popped before the k-th invocation returned or raised
VisitedAt(k) == {calls[i].sig : i \in 1..k}

\* the signature a retry signal names
Alternative(call) == Signature(call.did.signature)

RetriesWith(call) == call.did.kind = "retry" /\ call.did.signature # None

RetriesWithout(call) == call.did.kind = "retry" /\ call.did.signature = None

\* the permission to retry as the documentation of Session.can_retry words it
MayRetry(sess, opname) ==
    /\ ~ (sess.retry_deny # {} /\ opname \in sess.retry_deny)
    /\ (sess.retry_allow = {} \/ opname \in sess.retry_allow)

\* C3: in the resolution order a dispatch starts with, every signature
\* without a wildcard comes before every signature with a wildcard, and so
\* the first implementation invoked is one of a wildcard-free signature
\* whenever such a signature matches.  (Stated as the claim has it; the
\* resolution order of op.py does not have this property.)
C3_ExactBeforeWildcard ==
    /\ (dpc = "loop" /\ calls = <<>>) =>
          \A i \in 1..Len(order) : \A j \in 1..Len(order) :
             (i < j) => ~ (HasAny(order[i]) /\ ~ HasAny(order[j]))
    /\ (calls # <<>> /\ HasAny(calls[1].sig)) =>
          \A i \in 1..Len(registry) :
             HasAny(registry[i].sig)
               \/ \A combo \in Range(product(get_representations(args))) :
                     ~ match(registry[i].sig, combo)

C10_ExhaustedIsRetryError ==
    \A k \in 1..Len(calls) :
       (RetriesWithout(calls[k]) /\ MayRetry(session, OpName))
       => /\ (k < Len(calls)) => calls[k + 1].sig \in Range(Keys(registry))
          /\ (k = Len(calls) /\ dpc = "done") =>
                (order = <<>> /\ outcome = Raised("RetryError"))

\* the resolution order the dispatch began with
InitialOrder == resolution_order(registry, get_representations(args))

\* C25: every dispatch ends, returning a result or raising an error,
\* whatever the implementations do: each turn of the loop ends the dispatch
\* or invokes one more implementation, and the number of invocations never
\* exceeds the length of the initial resolution order plus the number of
\* signatures registered.
C25_DispatchTerminates ==
    /\ [](dpc \in {"loop", "done"}
            => Len(calls) <= Len(InitialOrder) + Len(registry))
    /\ [][(dpc = "loop" /\ dpc' = "loop")
            => Len(calls') = Len(calls) + 1]_vars
    /\ [](dpc = "done" => outcome.status \in {"returned", "raised"})
    /\ ((dpc = "loop") ~> (dpc = "done"))

\* a dispatch ended after as many invocations as three registered
\* signatures and their initial order of two allow for a session that may
\* retry
C25_Witness ==
    /\ dpc = "done"
    /\ Len(registry) = 3
    /\ Len(calls) >= 3
    /\ \A k \in 1..(Len(calls) - 1) : calls[k].did.kind = "retry"

\* C26: within one dispatch no implementation is invoked more than once: a
\* signature that was attempted is never attempted again, whether it comes
\* up again through the initial resolution order or through an alternative.
\* (Stated as the claim has it; op.py invokes again a signature that the
\* resolution order holds twice.)
C26_NoSecondInvocation ==
    \A i \in 1..Len(calls) : \A j \in 1..Len(calls) :
       (i < j) => (calls[i].sig # calls[j].sig /\ calls[i].func # calls[j].func)

\* ------------------------------------------------------------------------
\* Properties of Graph and ExecutionEngine
\* ------------------------------------------------------------------------
Successors(conns, set) == {c.target : c \in {d \in conns : d.source \in set}}

RECURSIVE Closure(_, _)
Closure(conns, set) ==
    LET next == set \cup Successors(conns, set)
    IN  IF next = set THEN set ELSE Closure(conns, next)

\* the connections contain a directed cycle
HasCycle(conns) ==
    \E c \in conns : c.source \in Closure(conns, Successors(conns, {c.source}))

\* the while loop of sorted_nodes has ended
LoopExited == rpc # "build" /\ source_nodes = {}

Position(node) == CHOOSE i \in 1..Len(sorted_nodes) : sorted_nodes[i] = node

\* the data object was consumable when its node returned it
WasConsumable(obj) == obj.consumable \/ obj.retained

RetainedNodes == {retains[k].node : k \in 1..Len(retains)}

\* C1: every operand handed to an evaluation still holds its data: a
\* consumable result that has not been retained is handed over at most
\* once, and every consumer of a node with a consumption count above 1
\* receives the retained value (or a value that never was consumable), so
\* that all readers of a node observe the same data whatever the order of
\* the steps.
C1_NoSecondReadOfFresh ==
    \A i \in 1..Len(reads) :
       /\ ~ reads[i].operand.exhausted
       /\ (consumption[reads[i].node.id] > 1) => ~ reads[i].operand.consumable
       /\ \A j \in 1..Len(reads) :
             (j # i /\ reads[j].node = reads[i].node)
               => ~ reads[i].operand.consumable

\* a run completed in which two different steps read the retained result of
\* one node
C1_Witness ==
    /\ rpc = "done"
    /\ \E i \in 1..Len(reads) : \E j \in 1..Len(reads) :
          /\ i < j
          /\ reads[i].node = reads[j].node
          /\ reads[i].reader # reads[j].reader
          /\ reads[i].operand.retained
          /\ reads[j].operand.retained

\* C2: retained() is called only on a consumable result of a node that
\* feeds two or more operands, at most once per node, and before the second
\* read of such a result; when the run completes it has been called exactly
\* once on each such node.
C2_RetainedExactlyOnce ==
    /\ \A k \in 1..Len(retains) :
          /\ retains[k].obj.consumable
          /\ ~ retains[k].obj.retained
          /\ consumption[retains[k].node.id] > 1
          /\ \A l \in 1..Len(retains) :
                (l # k) => retains[l].node # retains[k].node
    /\ \A i \in 1..Len(reads) : \A j \in 1..Len(reads) :
          (i < j /\ reads[i].node = reads[j].node
             /\ WasConsumable(reads[i].operand))
            => (reads[i].node \in RetainedNodes /\ reads[j].operand.retained)
    /\ (rpc = "done") =>
          \A n \in NodeValues :
             (WasConsumable(result[n.id]) /\ consumption[n.id] > 1)
               <=> (n \in RetainedNodes)

\* a run completed with a retained node, a consumable result read once and
\* never retained, and a result that is not consumable read twice
C2_Witness ==
    /\ rpc = "done"
    /\ Len(retains) = 1
    /\ \E n \in NodeValues :
          /\ consumption[n.id] = 1
          /\ result[n.id].consumable
          /\ n \notin RetainedNodes
    /\ \E n \in NodeValues :
          /\ consumption[n.id] = 2
          /\ n \in RetainedNodes

\* C6: for an acyclic graph, whatever nodes the loop removes, sorted_nodes
\* ends with a list that holds every node of the graph exactly once and in
\* which the source of every connection comes before its target.
C6_TopologicalOrder ==
    (LoopExited /\ ~ HasCycle(connections))
    => /\ sn_connections = {}
       /\ run_error # "Exception"
       /\ Len(sorted_nodes) = Cardinality(NodeValues)
       /\ Range(sorted_nodes) = NodeValues
       /\ \A c \in connections : Position(c.source) < Position(c.target)

\* three nodes were sorted, two of them ready at the same time
C6_Witness ==
    /\ LoopExited
    /\ Len(sorted_nodes) = 3
    /\ Cardinality(connections) >= 2
    /\ \E c \in connections : \E d \in connections :
          c.source = d.source /\ c.target # d.target
    /\ ~ HasCycle(connections)

\* the outlet of the target of a connection is bound
Bound(conns, conn) ==
    \E c \in conns : c.target = conn.target /\ c.outlet = conn.outlet

\* C7: sorted_nodes fails with the cycle error exactly when the connections
\* contain a directed cycle, whatever nodes the loop removes; connect
\* rejects a connection only when the outlet of its target is bound, never
\* because the connection closes a cycle.
C7_CycleErrorIffCycle ==
    /\ [](LoopExited =>
            /\ (sn_connections # {}) <=> HasCycle(connections)
            /\ (rpc # "sorting") =>
                  ((run_error = "Exception") <=> HasCycle(connections)))
    /\ [][(raised' = "GraphError") => Bound(connections, rejected')]_vars

\* a graph with a cycle through two nodes was built and its sort failed
C7_Witness ==
    /\ rpc = "failed"
    /\ run_error = "Exception"
    /\ \E c \in connections : \E d \in connections :
          c.source = d.target /\ c.target = d.source /\ c.source # c.target

\* a step of Graph.connect
ConnectStep == rpc = "build" /\ rpc' = "build" /\ nodes' = nodes

\* C8: every (target, outlet) pair is bound by at most one connection; a
\* connect on a bound pair raises GraphError and leaves the connections as
\* they are, and a connect that adds a connection binds a pair that was not
\* bound, also when another outlet of its target is bound.
C8_OutletBoundOnce ==
    /\ [](\A c \in connections : \A d \in connections :
            (c.target = d.target /\ c.outlet = d.outlet) => c = d)
    /\ [][ConnectStep =>
            IF connections' # connections
            THEN /\ raised' = ""
                 /\ \E c \in connections' :
                       /\ ~ Bound(connections, c)
                       /\ connections' = connections \cup {c}
            ELSE /\ raised' = "GraphError"
                 /\ Bound(connections, rejected')]_vars

\* a connect was rejected on a target that is bound through two outlets
C8_Witness ==
    /\ raised = "GraphError"
    /\ \E c \in connections : \E d \in connections :
          /\ c.target = d.target /\ c.outlet # d.outlet
          /\ rejected = [target |-> c.target, outlet |-> c.outlet]

\* some expected outlet of an operation node is bound to no source: no
\* connection carries its name and, for the first outlet, none carries
\* "default" either
Unbound(conns, node, i) ==
    /\ ~ Bound(conns, [target |-> node, outlet |-> outlets(node)[i]])
    /\ (i = 1) => ~ Bound(conns, [target |-> node, outlet |-> "default"])

SomeOutletUnbound ==
    \E n \in NodeValues : \E i \in 1..Len(outlets(n)) :
       Unbound(connections, n, i)

\* execution_plan has returned or raised
Planned == rpc \in {"running", "done", "failed"}

\* C11: when the graph has a cycle or an operation node has an expected
\* outlet bound to no source, run() fails in execution_plan (with the cycle
\* error or the unbound outlet error) and nothing has been evaluated: no
\* step exists or holds a result, no operand was read, no evaluate call was
\* made.
C11_PlanFailureBeforeEvaluation ==
    (Planned /\ (HasCycle(connections) \/ SomeOutletUnbound))
    => /\ rpc = "failed"
       /\ run_error \in {"Exception", "BubblesError"}
       /\ HasCycle(connections) => run_error = "Exception"
       /\ evals = <<>>
       /\ reads = <<>>
       /\ retains = <<>>
       /\ steps = <<>>
       /\ result = <<>>

\* run() failed on an acyclic graph in which an operation node has one
\* outlet bound and another one not
C11_Witness ==
    /\ rpc = "failed"
    /\ run_error = "BubblesError"
    /\ ~ HasCycle(connections)
    /\ \E n \in NodeValues :
          /\ Len(outlets(n)) = 2
          /\ Bound(connections, [target |-> n, outlet |-> "left"])
          /\ Unbound(connections, n, 2)
    /\ evals = <<>>

\* the ids of the nodes whose results a step reads
Outlets(step) == {step.outlets[j].id : j \in 1..Len(step.outlets)}

\* C12: when the evaluation of a step raises an error, run() ends with that
\* very error, the failed step being the last one evaluated: exactly the
\* steps before it hold a result, the step that failed and the steps after
\* it hold none, the failing turn leaves the results of the other steps as
\* they were, and nothing is evaluated or changed afterwards.
C12_FailureStopsRun ==
    /\ []((Len(evals) > 0 /\ evals[Len(evals)].error # "")
            => /\ rpc = "failed"
               /\ run_error = evals[Len(evals)].error
               /\ Len(evals) = stepi + 1
               /\ evals[Len(evals)].node = steps[stepi + 1].node
               /\ \A i \in 1..Len(steps) :
                     result[steps[i].node.id].evaluated <=> (i <= stepi))
    /\ [][(rpc = "running" /\ rpc' = "failed")
            => \A id \in DOMAIN result :
                  IF id \in Outlets(steps[stepi + 1])
                  THEN result'[id].evaluated
                  ELSE result'[id] = result[id]]_vars
    /\ [][(rpc = "failed") => (evals' = evals /\ result' = result)]_vars

\* the second step of a plan failed with RetryError after the first one had
\* stored its result
C12_Witness ==
    /\ rpc = "failed"
    /\ run_error = "RetryError"
    /\ stepi = 1
    /\ Len(steps) = 3
    /\ result[steps[1].node.id].evaluated

\* execution_plan has returned a plan
PlanReturned == Planned /\ run_error \notin {"Exception", "BubblesError"}

\* the connection feeds an operand of its target: its outlet is one the
\* target expects, or it is "default" while the first expected outlet of the
\* target is not bound under its own name
Reading(conns, c) ==
    LET names == outlets(c.target)
    IN  \/ \E i \in 1..Len(names) : c.outlet = names[i]
        \/ /\ c.outlet = "default"
           /\ Len(names) >= 1
           /\ ~ Bound(conns, [target |-> c.target, outlet |-> names[1]])

\* C13 as stated: the consumption count of every node of a planned graph is
\* the number of connections whose source is the node.
C13_ConsumptionIsOutDegree ==
    PlanReturned
    => \A n \in NodeValues :
          consumption[n.id]
            = Cardinality({c \in connections : c.source = n})

\* C13, amended: the consumption count of every node of a planned graph is
\* the number of connections whose source is the node and that feed an
\* operand of their target; a connection under an outlet name that its
\* target does not expect, or under "default" beside a connection under the
\* name of the first outlet, is not counted.
C13_ConsumptionIsReadCount ==
    PlanReturned
    => \A n \in NodeValues :
          consumption[n.id]
            = Cardinality({c \in connections :
                             c.source = n /\ Reading(connections, c)})

\* a plan in which one node is read twice, once as a second operand, and a
\* connection is not counted
C13_Witness ==
    /\ PlanReturned
    /\ \E n \in NodeValues :
          /\ consumption[n.id] = 2
          /\ \E c \in connections : c.source = n /\ c.outlet = "right"
    /\ \E c \in connections : ~ Reading(connections, c)

\* the source connected to the target under the outlet name, if any
SourceUnder(conns, target, outlet) ==
    IF Bound(conns, [target |-> target, outlet |-> outlet])
    THEN (CHOOSE c \in conns : c.target = target /\ c.outlet = outlet).source
    ELSE NoNode

\* C14: in a plan, the first expected outlet of a node is bound to the
\* source connected under the name of the outlet when there is one and
\* otherwise to the source connected under "default"; a later outlet is
\* bound to the source connected under its own name; when a later outlet has
\* no connection under its own name the plan fails with the unbound outlet
\* error (on an acyclic graph), whether or not "default" is connected.
C14_DefaultOnlyForFirstOutlet ==
    /\ PlanReturned
       => \A k \in 1..Len(steps) :
             LET node == steps[k].node
                 names == outlets(node)
             IN  /\ Len(steps[k].outlets) = Len(names)
                 /\ \A i \in 1..Len(names) :
                       LET own == [target |-> node, outlet |-> names[i]]
                       IN  steps[k].outlets[i] =
                             IF Bound(connections, own) \/ i > 1
                             THEN SourceUnder(connections, node, names[i])
                             ELSE SourceUnder(connections, node, "default")
    /\ (Planned /\ ~ HasCycle(connections)
          /\ \E n \in NodeValues : \E i \in 2..Len(outlets(n)) :
                ~ Bound(connections, [target |-> n, outlet |-> outlets(n)[i]]))
       => run_error = "BubblesError"

\* a plan whose two-operand node takes its first operand from the "default"
\* connection and its second from the "right" connection of another source
C14_Witness ==
    /\ PlanReturned
    /\ \E k \in 1..Len(steps) :
          /\ Len(steps[k].outlets) = 2
          /\ ~ Bound(connections, [target |-> steps[k].node, outlet |-> "left"])
          /\ steps[k].outlets[1]
               = SourceUnder(connections, steps[k].node, "default")
          /\ steps[k].outlets[1] # steps[k].outlets[2]

\* the dispatch stands at the head of its loop for the first time
AtFirstTurn == dpc = "loop" /\ visited = {}

\* the tag combinations of the operands, the leftmost operand varying
\* slowest and every operand in its own order of preference
Combinations ==
    LET lists == [i \in 1..Len(args) |-> args[i].reps]
        RECURSIVE Combine(_)
        Combine(k) ==
            IF k > Len(lists) THEN << <<>> >>
            ELSE LET rest == Combine(k + 1)
                 IN  Flatten([i \in 1..Len(lists[k]) |->
                         [j \in 1..Len(rest) |-> <<lists[k][i]>> \o rest[j]]])
    IN  Combine(1)

\* C15: the exact signatures of the resolution order are the registered
\* signatures of the tag combinations of the operands, in the order of the
\* combinations; with only ("sql") and ("rows") registered, the first
\* implementation invoked is the one of the first tag of the operand.
C15_ProductOrderAmongExact ==
    /\ AtFirstTurn
       => Filter(order, {sig \in Range(order) : ~ HasAny(sig)})
            = Filter([i \in 1..Len(Combinations) |->
                        Signature(Combinations[i])],
                     Range(Keys(registry)))
    /\ (/\ Range(Keys(registry))
             = {Signature(<<Str("sql")>>), Signature(<<Str("rows")>>)}
        /\ Len(calls) >= 1)
       => calls[1].sig = Signature(<<args[1].reps[1]>>)

\* ("sql") and ("rows") are registered in this order and an operand with the
\* tags [rows, sql] was dispatched to the implementation of ("rows")
C15_Witness ==
    /\ Keys(registry) = <<Signature(<<Str("sql")>>), Signature(<<Str("rows")>>)>>
    /\ args = <<[reps |-> <<Str("rows"), Str("sql")>>]>>
    /\ dpc = "done"
    /\ outcome = Returned(2)
    /\ Len(calls) = 1

\* C16: when the implementation of an operation calls another operation
\* through its session and the first candidate of that operation signals
\* retry with an alternative whose implementation returns, the alternative
\* ran inside the nested dispatch and the calling implementation goes on and
\* returns; the calling implementation is invoked once and the dispatch of
\* the calling operation catches no retry signal, also when the nested
\* dispatch fails, its error then being the error of the calling dispatch.
C16_NestedRetryStaysInside ==
    /\ osignals = 0
    /\ ocalls <= 1
    /\ (opc = "calling") => (ocalls = 1 /\ ooutcome = NoOutcome)
    /\ (/\ opc = "done"
        /\ Len(calls) = 2
        /\ RetriesWith(calls[1])
        /\ calls[2].did = Returns)
       => /\ ooutcome = Returned(0)
          /\ ocalls = 1
          /\ calls[2].sig = Alternative(calls[1])
          /\ outcome = Returned(calls[2].func)
    /\ (opc = "done" /\ ocalls = 1 /\ outcome.status = "raised")
       => ooutcome = outcome

\* the calling implementation returned after the ("sql") implementation of
\* the called operation signalled retry with ["rows"] on an operand that has
\* the tag sql only, and the ("rows") implementation returned
C16_Witness ==
    /\ opc = "done"
    /\ ooutcome = Returned(0)
    /\ ocalls = 1
    /\ args = <<[reps |-> <<Str("sql")>>]>>
    /\ Len(calls) = 2
    /\ calls[1].sig = Signature(<<Str("sql")>>)
    /\ calls[1].did = RetryOperation(<<Str("rows")>>)
    /\ calls[2].sig = Signature(<<Str("rows")>>)
    /\ calls[2].did = Returns

\* C17 as stated: every signature in the registry of an operation has the
\* number of operands of the prototype that the first registration fixed.
C17_ArityFixedByPrototype ==
    (prototype # None)
    => \A i \in 1..Len(registry) :
          Len(registry[i].sig.operands) = Len(prototype.operands)

\* C18 as stated: a register call under a signature that is in the registry
\* is rejected and every signature stays bound to the implementation that
\* was registered first under it.
C18_DuplicateRejected ==
    [][(nregs' = nregs + 1)
         => /\ \A i \in 1..Len(registry) : registry'[i] = registry[i]
            /\ (Len(registry') = Len(registry)) => registered' # "ok"]_vars

EvaluatedBefore(node, turn) ==
    \E k \in 1..(turn - 1) : evals[k].node = node /\ evals[k].error = ""

\* C23: the steps are evaluated one after another in plan order, each at
\* most once, a step holds a result exactly when it has been evaluated, when
\* a step is evaluated every step bound to one of its outlets has been
\* evaluated and its result (or the retained copy made of it) is the operand
\* passed in, and when run() completes every node of the graph has been
\* evaluated exactly once.
C23_StepsOneShotInPlanOrder ==
    /\ [](/\ Len(evals) <= Len(steps)
          /\ \A i \in 1..Len(evals) :
                /\ evals[i].node = steps[i].node
                /\ \A j \in 1..Len(evals) :
                      (j # i) => evals[j].node # evals[i].node
                /\ \A j \in 1..Len(steps[i].outlets) :
                      EvaluatedBefore(steps[i].outlets[j], i)
          /\ \A id \in DOMAIN result :
                result[id].evaluated
                  <=> \E i \in 1..Len(evals) :
                         evals[i].node.id = id /\ evals[i].error = ""
          /\ \A k \in 1..Len(reads) :
                /\ reads[k].operand.evaluated
                /\ \E i \in 1..Len(evals) :
                      /\ evals[i].node = reads[k].reader
                      /\ EvaluatedBefore(reads[k].node, i)
          /\ (rpc = "done")
             => /\ Len(evals) = Len(nodes)
                /\ \A n \in NodeValues :
                      /\ Cardinality({i \in 1..Len(evals) :
                                        evals[i].node = n}) = 1
                      /\ result[n.id].evaluated)
    /\ [][(Len(evals') = Len(evals) + 1)
            => /\ Len(reads') =
                    Len(reads) + Len(steps[Len(evals')].outlets)
               /\ \A j \in 1..Len(steps[Len(evals')].outlets) :
                     LET read == reads'[Len(reads) + j]
                         outlet == steps[Len(evals')].outlets[j]
                     IN  /\ read.node = outlet
                         /\ read.reader = evals'[Len(evals')].node
                         /\ result[outlet.id].evaluated
                         /\ read.operand \in {result[outlet.id],
                                              retained(result[outlet.id])}]_vars

\* a run of three nodes completed, the last step having read the results
\* of the two others
C23_Witness ==
    /\ rpc = "done"
    /\ Len(evals) = 3
    /\ Len(steps[3].outlets) = 2
    /\ steps[3].outlets[1] # steps[3].outlets[2]
    /\ \A n \in NodeValues : result[n.id].evaluated

\* the reads of the node's result, as indexes of reads
ReadsOf(node) == {i \in 1..Len(reads) : reads[i].node = node}

\* the i-th read is the first read of the result of its node
FirstRead(i) == \A j \in ReadsOf(reads[i].node) : i <= j

\* the i-th read is of a result that was consumable when returned and that
\* the plan counts more than one read of
ReadOfShared(i) ==
    /\ WasConsumable(reads[i].operand)
    /\ consumption[reads[i].node.id] > 1

\* C24 as stated: the consumable result of a node with a consumption count
\* above 1 is retained at most once, when it is about to be read for the
\* second time: the first read receives the fresh value.
C24_RetainedAtSecondRead ==
    /\ \A k \in 1..Len(retains) : \A l \in 1..Len(retains) :
          (l # k) => retains[l].node # retains[k].node
    /\ \A i \in 1..Len(reads) :
          (ReadOfShared(i) /\ FirstRead(i))
            => (reads[i].operand.consumable /\ ~ reads[i].operand.retained)

\* C24, amended: the consumable result of a node with a consumption count
\* above 1 is retained at most once, when it is about to be read for the
\* first time: retained() is called on the fresh value before any read of
\* it, and the first read and every later one receive the retained value.
C24_RetainedAtFirstRead ==
    /\ [](/\ \A k \in 1..Len(retains) :
                /\ retains[k].obj.consumable
                /\ ~ retains[k].obj.retained
                /\ \A l \in 1..Len(retains) :
                      (l # k) => retains[l].node # retains[k].node
          /\ \A i \in 1..Len(reads) :
                ReadOfShared(i)
                  => /\ reads[i].operand.retained
                     /\ ~ reads[i].operand.consumable
                     /\ reads[i].node \in RetainedNodes)
    /\ [][\A k \in (Len(retains) + 1)..Len(retains') :
             /\ ReadsOf(retains'[k].node) = {}
             /\ retains'[k].node \notin consumed
             /\ \E i \in (Len(reads) + 1)..Len(reads') :
                   /\ reads'[i].node = retains'[k].node
                   /\ reads'[i].operand = retained(retains'[k].obj)]_vars

\* a node's consumable result was retained and has been read by one step,
\* the second read is still to come
C24_Witness ==
    /\ rpc = "running"
    /\ \E n \in NodeValues :
          /\ consumption[n.id] = 2
          /\ n \in RetainedNodes
          /\ Cardinality(ReadsOf(n)) = 1
          /\ \A i \in ReadsOf(n) : reads[i].operand.retained

\* ------------------------------------------------------------------------
\* Properties of Pipeline.run
\* ------------------------------------------------------------------------
\* engine.run was called on the graph during the current Pipeline.run
Ran(graph) == \E i \in 1..Len(p_runs) : p_runs[i].graph = graph

\* ... and ended with the result
RanWith(graph, ended) ==
    \E i \in 1..Len(p_runs) :
       p_runs[i].graph = graph /\ p_runs[i].result = ended

Rank(graph) ==
    IF graph = "test_if_needed" THEN 1
    ELSE IF graph = "test_if_satisfied" THEN 2 ELSE 3

IsList(string) == Len(string) >= 1 /\ string[Len(string)] = "[]"

Tag(string) ==
    IF IsList(string) THEN SubSeq(string, 1, Len(string) - 1) ELSE string

\* the last match was of the signature of these strings against these
MatchOf(types, operand_types) ==
    m_called /\ m_types = types /\ m_operand_types = operand_types

\* C21: Signature.match is true iff the arities are equal and at every
\* position the list flags are equal and the matcher is the wildcard or
\* equals the operand's tag; ("sql") matches "sql", ("*") matches "sql",
\* ("sql[]") and ("*[]") match "sql[]", ("sql") matches neither "sql[]" nor
\* "rows".
C21_MatchRule ==
    /\ m_called
       => (m_result
           <=> /\ Len(m_types) = Len(m_operand_types)
               /\ \A i \in 1..Len(m_types) :
                     /\ IsList(m_types[i]) = IsList(m_operand_types[i])
                     /\ \/ Tag(m_types[i]) = <<"*">>
                        \/ Tag(m_types[i]) = Tag(m_operand_types[i]))
    /\ MatchOf(<<(<<"sql">>)>>, <<(<<"sql">>)>>) => m_result
    /\ MatchOf(<<(<<"*">>)>>, <<(<<"sql">>)>>) => m_result
    /\ MatchOf(<<(<<"sql", "[]">>)>>, <<(<<"sql", "[]">>)>>) => m_result
    /\ MatchOf(<<(<<"*", "[]">>)>>, <<(<<"sql", "[]">>)>>) => m_result
    /\ MatchOf(<<(<<"sql">>)>>, <<(<<"sql", "[]">>)>>) => ~ m_result
    /\ MatchOf(<<(<<"sql">>)>>, <<(<<"rows">>)>>) => ~ m_result

\* the wildcard without the list suffix was tried on a list operand
C21_Witness ==
    /\ MatchOf(<<(<<"*">>), (<<"sql">>)>>, <<(<<"rows", "[]">>), (<<"sql">>)>>)
    /\ ~ m_result

\* ------------------------------------------------------------------------
\* Properties of get_representations
\* ------------------------------------------------------------------------
\* the tags a data object declares, by reps() or by representations()
Declared(obj) == IF "reps" \in DOMAIN obj THEN obj.reps ELSE obj.representations

\* the tags of the first member that every other member declares too, in
\* the first member's order, with the list suffix
SharedTags(items) ==
    LET first == Declared(items[1])
        shared == {i \in 1..Len(first) :
                     \A k \in 2..Len(items) :
                        \E j \in 1..Len(Declared(items[k])) :
                           Declared(items[k])[j] = first[i]}
        Nth(n) ==
            CHOOSE i \in shared : Cardinality({j \in shared : j < i}) = n - 1
    IN  [n \in 1..Cardinality(shared) |-> first[Nth(n)] \o <<"[]">>]

\* C22: get_representations gives for a data object its own tags in declared
\* order and for a list of objects the tags of the first member that every
\* other member declares too, in the first member's order, each with the
\* suffix "[]".
C22_RepresentationsOfOperands ==
    (r_ended # "")
    => \A i \in 1..Len(r_args) :
          IF "items" \in DOMAIN r_args[i]
          THEN (r_args[i].items # <<>>)
               => /\ r_ended = "returned"
                  /\ r_reps[i] = SharedTags(r_args[i].items)
          ELSE /\ r_ended = "returned"
               /\ r_reps[i] = Declared(r_args[i])

\* ------------------------------------------------------------------------
\* Properties of OperationContext
\* ------------------------------------------------------------------------
\* C27: after any add_operation and remove_operation calls all operations
\* under the name have signatures of one arity, and an add_operation of a
\* signature of another arity than the operations under the name raises an
\* error and stores nothing.  (Stated as the claim has it; after
\* remove_operation with a signature core.py accepts any arity.)
C27_OneArityUnderName ==
    /\ \A i \in 1..Len(operations) : \A j \in 1..Len(operations) :
          Len(operations[i]) = Len(operations[j])
    /\ (added # None /\ ctx_raised = "")
       => \A i \in 1..Len(operations) : Len(operations[i]) = Len(added[1])

\* ------------------------------------------------------------------------
\* Properties of ExecutionStep of graph.py
\* ------------------------------------------------------------------------
\* C28: the flag of a step is false from the evaluation of the step to the
\* first read of its result by another step; the first read of a consumable
\* result succeeds and sets the flag, a later read of it raises
\* BubblesError, and a result that is not consumable is read any number of
\* times.  (Stated as the claim has it; in graph.py the evaluation itself
\* sets the flag.)
C28_FlagSetByFirstRead ==
    /\ \A id \in DOMAIN step_used :
          step_used[id] <=> \E k \in 1..Len(reads) : reads[k].node.id = id
    /\ (twice # NoNode)
       => /\ result[twice.id].consumable
          /\ \E k \in 1..Len(reads) : reads[k].node = twice
          /\ rpc = "failed"
          /\ run_error = "BubblesError"
    /\ \A k \in 1..Len(reads) : \A l \in 1..Len(reads) :
          (k < l /\ reads[k].node = reads[l].node)
            => ~ reads[k].operand.consumable

\* ------------------------------------------------------------------------
\* Properties of Graph.targets
\* ------------------------------------------------------------------------
\* C29: Graph.targets(n) returns the nodes n passes data into: the targets
\* of the connections whose source is n, one entry per such connection.
\* (Stated as the claim has it; graph.py selects the connections whose
\* target is n.)
C29_TargetsAreFedNodes ==
    (t_node # NoNode)
    => LET fed == {c \in connections : c.source = t_node}
       IN  /\ DOMAIN t_nodes = {c.target : c \in fed}
           /\ \A m \in DOMAIN t_nodes :
                 t_nodes[m] = Cardinality({c \in fed : c.target = m})

\* ------------------------------------------------------------------------
\* Properties of OperationContext.call
\* ------------------------------------------------------------------------
\* C30: a call invokes at most 1 + retry_count operations; it returns as
\* soon as one of them returns, with that one's result; it raises
\* RetryError exactly when the first invocation and retry_count retries
\* have all signalled retry, so an operation that always asks for a retry
\* with its own signature ends the call with RetryError.
C30_RetriesAreCounted ==
    /\ Len(invoked) <= 1 + retry_count
    /\ retries <= retry_count
    /\ (cpc \in {"retry", "done"} /\ invoked # <<>>)
       => Len(invoked) = 1 + retries
    /\ (cpc = "done" /\ call_outcome.status = "returned")
       => /\ invoked # <<>>
          /\ operations[call_outcome.value] = invoked[Len(invoked)]
    /\ (cpc = "done")
       => (call_outcome = Raised("RetryError")
           <=> /\ Len(invoked) = 1 + retry_count
               /\ call_outcome.status # "returned")
    /\ (cpc = "retry") => Len(invoked) < 1 + retry_count

\* one operation asked for a retry with its own signature every time and
\* the call ended with RetryError after 1 + retry_count invocations of it
C30_Witness ==
    /\ cpc = "done"
    /\ retry_count = MaxRetryCount
    /\ call_outcome = Raised("RetryError")
    /\ Len(invoked) = 1 + retry_count
    /\ \A i \in 1..Len(invoked) : invoked[i] = invoked[1]

====
